---- MODULE Spec2Model ----
(***************************************************************************)
(* A model of github.com/abs2free/go-kit/logger: the functional options,   *)
(* the two core builders (WithFileCore, WithConsoleCore), the assembly of  *)
(* the cores into one logger by new(), the process-wide Logger slot and    *)
(* the convenience constructor New(level).                                 *)
(*                                                                         *)
(* Function values (encoders) are modelled by their names.  A pointer is   *)
(* an address into a heap (a function from addresses to LoggerConfig       *)
(* values): DefaultConfig is the pointer DefaultAddr, and each builder     *)
(* invocation's local `cfg` lives at an address of its own.                *)
(***************************************************************************)
EXTENDS Integers, Sequences, FiniteSets, TLC

VARIABLES
    DefaultConfig,  \* the LoggerConfig value the global pointer DefaultConfig points to
    allocs,         \* how many `cfg` locals builder invocations have allocated so far
    cores,          \* builder invocations made directly: the cfg and writer instance of each
    Logger,         \* the process-wide slot: 0 is nil, otherwise the id of a logger
    loggers,        \* every logger zap.New has created; its id is its index
    exited,         \* the process has ended (a Fatal write ends it with os.Exit)
    pc,             \* concurrent callers of new(): the line each one is at
    frame,          \* concurrent callers of new(): each one's locals and result
    call            \* the last completed operation: its inputs and what it returned

vars == <<DefaultConfig, allocs, cores, Logger, loggers, exited, pc, frame, call>>

-----------------------------------------------------------------------------
(* Bounds of the model. *)

MaxOpts == 2          \* longest option list given to a builder
MaxInvocations == 2   \* builder invocations made directly by a caller
MaxBuilders == 2      \* longest builder list given to new()
MaxLoggers == 2       \* loggers created over a run
MaxWrites == 2        \* records written over a run

-----------------------------------------------------------------------------
(* zapcore.Level: the ordered severities. *)

DebugLevel == -1
InfoLevel == 0
WarnLevel == 1
ErrorLevel == 2
FatalLevel == 5

Levels == {DebugLevel, InfoLevel, WarnLevel, ErrorLevel, FatalLevel}

\* The address the global pointer DefaultConfig holds.
DefaultAddr == 0

\* The value DefaultConfig points to when the package is loaded.
InitialDefaultConfig ==
    [ Level    |-> InfoLevel,
      FilePath |-> "logs/zap.log",
      Rotate   |-> [ MaxSize    |-> 20,
                     MaxAge     |-> 30,
                     MaxBackups |-> 50,
                     Compress   |-> FALSE,
                     Filename   |-> "logs/zap.log" ],
      Encoder  |-> [ LevelKey       |-> "level",
                     NameKey        |-> "logs/zap.log",
                     TimeKey        |-> "time",
                     MessageKey     |-> "msg",
                     CallerKey      |-> "caller",
                     StacktraceKey  |-> "stacktrace",
                     EncodeLevel    |-> "LowercaseLevelEncoder",
                     EncodeTime     |-> "ISO8601TimeEncoder",
                     EncodeDuration |-> "SecondsDurationEncoder",
                     EncodeCaller   |-> "ShortCallerEncoder" ] ]

-----------------------------------------------------------------------------
(* The options.  Each is the body of the closure the Go function returns,  *)
(* run on the LoggerConfig at address p of heap h.                         *)

WithLogLevel(level, h, p) == [h EXCEPT ![p].Level = level]

WithLogFilePath(filePath, h, p) ==
    [h EXCEPT ![p].FilePath = filePath,
              ![p].Rotate.Filename = filePath,
              ![p].Encoder.NameKey = filePath]

WithLogFormat(format, h, p) == [h EXCEPT ![p].Encoder = format]

WithRotateSettings(maxSize, maxAge, compress, h, p) ==
    [h EXCEPT ![p].Rotate.MaxSize = maxSize,
              ![p].Rotate.MaxAge = maxAge,
              ![p].Rotate.Compress = compress]

WithColorOutput(enabled, h, p) ==
    IF ~enabled
    THEN LET h1 == [h  EXCEPT ![p].Encoder.EncodeLevel = "LowercaseLevelEncoder"]
             h2 == [h1 EXCEPT ![p].Encoder.EncodeTime = "ISO8601TimeEncoder"]
             h3 == [h2 EXCEPT ![p].Encoder.EncodeCaller = "ShortCallerEncoder"]
         IN  [h3 EXCEPT ![p].Encoder.EncodeLevel = "CapitalColorLevelEncoder"]
    ELSE h

\* opt(&cfg): run one option value on the configuration at p.
RunOption(o, h, p) ==
    CASE o.op = "WithLogLevel"       -> WithLogLevel(o.level, h, p)
      [] o.op = "WithLogFilePath"    -> WithLogFilePath(o.filePath, h, p)
      [] o.op = "WithLogFormat"      -> WithLogFormat(o.format, h, p)
      [] o.op = "WithRotateSettings" -> WithRotateSettings(o.maxSize, o.maxAge, o.compress, h, p)
      [] o.op = "WithColorOutput"    -> WithColorOutput(o.enabled, h, p)

\* for _, opt := range options { opt(&cfg) }
RECURSIVE ApplyOptions(_, _, _)
ApplyOptions(options, h, p) ==
    IF options = <<>> THEN h
    ELSE ApplyOptions(Tail(options), RunOption(Head(options), h, p), p)

-----------------------------------------------------------------------------
(* The option values callers pass. *)

\* An encoder configuration a caller hands to WithLogFormat: zap's production
\* configuration, whose NameKey is "logger".
ProductionFormat ==
    [ LevelKey       |-> "level",
      NameKey        |-> "logger",
      TimeKey        |-> "ts",
      MessageKey     |-> "msg",
      CallerKey      |-> "caller",
      StacktraceKey  |-> "stacktrace",
      EncodeLevel    |-> "LowercaseLevelEncoder",
      EncodeTime     |-> "EpochTimeEncoder",
      EncodeDuration |-> "SecondsDurationEncoder",
      EncodeCaller   |-> "ShortCallerEncoder" ]

Formats == {ProductionFormat}

Options ==
    {[op |-> "WithLogLevel", level |-> WarnLevel]}
    \cup {[op |-> "WithLogFilePath", filePath |-> f] :
            f \in {"test_logs/test.log", "test_logs/file_only.log"}}
    \cup {[op |-> "WithLogFormat", format |-> f] : f \in Formats}
    \cup {[op |-> "WithRotateSettings", maxSize |-> 5, maxAge |-> 3, compress |-> TRUE]}
    \cup {[op |-> "WithColorOutput", enabled |-> FALSE]}

SeqsUpTo(S, n) == UNION {[1..k -> S] : k \in 0..n}

OptionLists == SeqsUpTo(Options, MaxOpts)

-----------------------------------------------------------------------------
(* The core builders. *)

\* cfg := *DefaultConfig : a new local at address a, holding a copy of the
\* value DefaultConfig points to.
AliasedDefault(h, a) == [addr |-> DefaultAddr, heap |-> h]

CopyOfDefault(h, a) == [addr |-> a, heap |-> (a :> h[DefaultAddr]) @@ h]

\* newJSONEncoder(&cfg): forces the time layout into cfg, then builds the
\* JSON encoder from a copy of cfg.Encoder.
newJSONEncoder(h, p) ==
    LET h1 == [h EXCEPT ![p].Encoder.EncodeTime = "2006-01-02 15:04:05.000"]
    IN  [heap |-> h1, encoder |-> [type |-> "json", config |-> h1[p].Encoder]]

\* newFileWriter(&cfg): a pointer to the lumberjack.Logger inside cfg.
newFileWriter(h, p) == [type |-> "lumberjack", at |-> p]

\* The lumberjack.Logger a file writer points to.
Deref(h, w) == h[w.at].Rotate

\* zapcore.AddSync(os.Stdout): *os.File has a Sync method, so AddSync returns
\* os.Stdout itself, the one stream of the process.
StdoutWriter == [type |-> "os.Stdout"]

\* Whether two writers are one instance: the same lumberjack.Logger (by
\* address), or both the process's os.Stdout.
SameWriter(w1, w2) ==
    /\ w1.type = w2.type
    /\ w1.type = "lumberjack" => w1.at = w2.at

\* The closure WithFileCore(options...) returns, run with the heap h and the
\* fresh address a for its local cfg.  Gives the core, the address of cfg and
\* the heap it leaves.
WithFileCore(options, h, a) ==
    LET c  == CopyOfDefault(h, a)
        h1 == ApplyOptions(options, c.heap, c.addr)
        h2 == [h1 EXCEPT ![c.addr].Rotate.Filename = h1[c.addr].Encoder.NameKey]
        e  == newJSONEncoder(h2, c.addr)
        w  == newFileWriter(e.heap, c.addr)
    IN  [ core |-> [enc |-> e.encoder, out |-> w, level |-> e.heap[c.addr].Level],
          cfg  |-> c.addr,
          heap |-> e.heap ]

ConsoleForcedLast(options, h, a) ==
    LET c  == CopyOfDefault(h, a)
        h1 == ApplyOptions(options, c.heap, c.addr)
        h2 == [h1 EXCEPT ![c.addr].Encoder.EncodeLevel = "CustomLevelEncoder"]
        h3 == [h2 EXCEPT ![c.addr].Encoder.EncodeTime = "CustomTimeEncoder"]
    IN  [ core |-> [enc |-> [type |-> "console", config |-> h3[c.addr].Encoder],
                    out |-> StdoutWriter, level |-> h3[c.addr].Level],
          cfg  |-> c.addr,
          heap |-> h3 ]

\* The closure WithConsoleCore(options...) returns.
WithConsoleCore(options, h, a) ==
    LET c  == CopyOfDefault(h, a)
        h1 == [c.heap EXCEPT ![c.addr].Encoder.EncodeLevel = "CustomLevelEncoder"]
        h2 == [h1 EXCEPT ![c.addr].Encoder.EncodeTime = "CustomTimeEncoder"]
        h3 == ApplyOptions(options, h2, c.addr)
    IN  [ core |-> [enc |-> [type |-> "console", config |-> h3[c.addr].Encoder],
                    out |-> StdoutWriter, level |-> h3[c.addr].Level],
          cfg  |-> c.addr,
          heap |-> h3 ]

\* The heap a builder starts from: the one long-lived cell is DefaultConfig's.
GlobalHeap == DefaultAddr :> DefaultConfig

-----------------------------------------------------------------------------
(* The state when the package has been loaded and nothing has been called. *)

Procs == {"g1", "g2"}

NoFrame == [logger |-> 0, seen |-> 0, ret |-> 0]

Init ==
    /\ DefaultConfig = InitialDefaultConfig
    /\ allocs = 0
    /\ cores = <<>>
    /\ Logger = 0
    /\ loggers = <<>>
    /\ exited = FALSE
    /\ pc = [p \in Procs |-> "idle"]
    /\ frame = [p \in Procs |-> NoFrame]
    /\ call = [op |-> "init"]

-----------------------------------------------------------------------------
(* A caller invokes a core builder directly: builder(&core).  Once the     *)
(* builder has returned nothing writes to its cfg again, so the state keeps *)
(* each earlier invocation's addresses, and the values of the last one.    *)

InvokeFileCore(options) ==
    /\ Len(cores) < MaxInvocations
    /\ LET r == WithFileCore(options, GlobalHeap, allocs + 1)
       IN  /\ DefaultConfig' = r.heap[DefaultAddr]
           /\ allocs' = allocs + 1
           /\ cores' = Append(cores, [cfg |-> r.cfg, out |-> r.core.out])
           /\ call' = [op |-> "WithFileCore", options |-> options, core |-> r.core,
                       rotate |-> Deref(r.heap, r.core.out)]
    /\ UNCHANGED <<Logger, loggers, exited, pc, frame>>

InvokeConsoleCore(options) ==
    /\ Len(cores) < MaxInvocations
    /\ LET r == WithConsoleCore(options, GlobalHeap, allocs + 1)
       IN  /\ DefaultConfig' = r.heap[DefaultAddr]
           /\ allocs' = allocs + 1
           /\ cores' = Append(cores, [cfg |-> r.cfg, out |-> r.core.out])
           /\ call' = [op |-> "WithConsoleCore", options |-> options, core |-> r.core]
    /\ UNCHANGED <<Logger, loggers, exited, pc, frame>>

NextBuild ==
    \/ \E options \in OptionLists : InvokeFileCore(options)
    \/ \E options \in OptionLists : InvokeConsoleCore(options)

SpecBuild == Init /\ [][NextBuild]_vars

-----------------------------------------------------------------------------
(* new(builders...): the cores are built, combined by zapcore.NewTee and   *)
(* wrapped by zap.New; the logger replaces the occupant of Logger.         *)

\* The builders callers pass to new(): a nil CoreBuilder, a CoreBuilder that
\* returns without assigning *core, and the package's two builders.
NilBuilder == [kind |-> "nil", options |-> <<>>]

EmptyBuilder == [kind |-> "empty", options |-> <<>>]

FileBuilder(options) == [kind |-> "WithFileCore", options |-> options]

ConsoleBuilder(options) == [kind |-> "WithConsoleCore", options |-> options]

Builders ==
    { NilBuilder, EmptyBuilder,
      FileBuilder(<<[op |-> "WithLogLevel", level |-> WarnLevel]>>),
      ConsoleBuilder(<<[op |-> "WithLogLevel", level |-> DebugLevel]>>) }

BuilderLists == SeqsUpTo(Builders, MaxBuilders)

\* var core zapcore.Core; builder(&core): core stays nil unless the builder
\* assigns it.  n counts the cfg locals allocated so far.
RunBuilder(b, h, n) ==
    CASE b.kind = "WithFileCore" ->
           LET r == WithFileCore(b.options, h, n + 1)
           IN  [isNil |-> FALSE, core |-> r.core, heap |-> r.heap, allocs |-> n + 1]
      [] b.kind = "WithConsoleCore" ->
           LET r == WithConsoleCore(b.options, h, n + 1)
           IN  [isNil |-> FALSE, core |-> r.core, heap |-> r.heap, allocs |-> n + 1]
      [] OTHER -> [isNil |-> TRUE, core |-> <<>>, heap |-> h, allocs |-> n]

\* if core == nil { continue }; cores = append(cores, core).  acc is
\* [cores, from, heap, allocs]; from remembers the builder of each core.
CollectKeepsLast(b, acc, r) ==
    IF r.isNil THEN acc
    ELSE [cores  |-> <<r.core>>,
          from   |-> <<b>>,
          heap   |-> r.heap,
          allocs |-> r.allocs]

Collect(b, acc, r) ==
    IF r.isNil THEN acc
    ELSE [cores  |-> Append(acc.cores, r.core),
          from   |-> Append(acc.from, b),
          heap   |-> r.heap,
          allocs |-> r.allocs]

\* One turn of the loop of new() over its builders: a nil builder is
\* skipped, any other is run.
LoopBody(b, acc) ==
    IF b.kind = "nil" THEN acc
    ELSE Collect(b, acc, RunBuilder(b, acc.heap, acc.allocs))

\* for _, builder := range builders { ... }
RECURSIVE BuildCores(_, _)
BuildCores(builders, acc) ==
    IF builders = <<>> THEN acc
    ELSE BuildCores(Tail(builders), LoopBody(Head(builders), acc))

\* cores := make([]zapcore.Core, 0, len(builders)), in the state new() starts from.
NoCores == [cores |-> <<>>, from |-> <<>>, heap |-> GlobalHeap, allocs |-> allocs]

\* if len(cores) == 0 { return nil, error }
NeverEmpty(cs) == FALSE

NoValidCores(cs) == Len(cs) = 0

\* zap.New(zapcore.NewTee(cores...), opts...): a logger over the cores, with
\* nothing written yet.  synced counts the Sync calls new() makes on it while
\* it is the occupant of Logger; life is built, occupant or replaced.
NewLogger(acc) ==
    [ cores   |-> acc.cores,
      from    |-> acc.from,
      written |-> [i \in DOMAIN acc.cores |-> <<>>],
      synced  |-> 0,
      life    |-> "built" ]

\* if Logger != nil { _ = Logger.Sync() }: the occupant l of the slot is
\* flushed; the error of Sync is dropped.
SyncNothing(ls, l) == ls

SyncOccupant(ls, l) ==
    IF l # 0 THEN [ls EXCEPT ![l].synced = @ + 1] ELSE ls

\* Logger = logger.Sugar(): id takes the slot from the occupant l.
Install(ls, l, id) ==
    [i \in DOMAIN ls |->
        IF i = id THEN [ls[i] EXCEPT !.life = "occupant"]
        ELSE IF i = l THEN [ls[i] EXCEPT !.life = "replaced"]
        ELSE ls[i]]

\* return nil, fmt.Errorf(...): nothing but the builders has run.
Refused(err, acc) ==
    [ err |-> err, ret |-> 0, flushed |-> 0, Logger |-> Logger, loggers |-> loggers,
      DefaultConfig |-> acc.heap[DefaultAddr], allocs |-> acc.allocs ]

\* The rest of new() once the cores are there: the logger id is created,
\* the occupant is flushed, the slot is overwritten and returned.
Replace(acc, id) ==
    [ err     |-> "nil",
      ret     |-> id,
      flushed |-> Logger,
      Logger  |-> id,
      loggers |-> Install(SyncOccupant(Append(loggers, NewLogger(acc)), Logger), Logger, id),
      DefaultConfig |-> acc.heap[DefaultAddr],
      allocs  |-> acc.allocs ]

Assemble(acc) ==
    IF NoValidCores(acc.cores)
    THEN Refused("no valid log cores were configured", acc)
    ELSE Replace(acc, Len(loggers) + 1)

\* The whole of new() run to its end from the current state: what it
\* returns and the state it leaves.
NewOutcome(builders) ==
    IF Len(builders) = 0
    THEN Refused("at least one core builder is required", NoCores)
    ELSE Assemble(BuildCores(builders, NoCores))

\* syncErr is what the occupant's Sync returns when new() calls it.
new(builders, syncErr) ==
    /\ ~exited
    /\ Len(loggers) < MaxLoggers
    /\ \E o \in {NewOutcome(builders)} :
           /\ Logger' = o.Logger
           /\ loggers' = o.loggers
           /\ DefaultConfig' = o.DefaultConfig
           /\ allocs' = o.allocs
           /\ call' = [ op |-> "new", builders |-> builders, err |-> o.err, ret |-> o.ret,
                        prev |-> Logger, flushed |-> o.flushed,
                        syncErr |-> syncErr /\ o.flushed # 0,
                        before |-> loggers ]
    /\ UNCHANGED <<cores, exited, pc, frame>>

-----------------------------------------------------------------------------
(* Writing a record through a logger.                                      *)

\* zapcore.Level.Enabled, the LevelEnabler NewCore is given: cfg.Level admits
\* the levels at or above it.
EnabledAbove(core, level) == level > core.level

Enabled(core, level) == level >= core.level

\* The tee's Check and Write: every core that admits the level is handed the
\* record; the others are not.
Delivered(lg, level) == {i \in DOMAIN lg.cores : Enabled(lg.cores[i], level)}

TeeWrite(lg, level) ==
    [lg EXCEPT !.written =
        [i \in DOMAIN lg.cores |->
            IF i \in Delivered(lg, level) THEN Append(lg.written[i], level)
            ELSE lg.written[i]]]

\* logger.Debug / Info / Warn / Error / Fatal through a handle the caller
\* holds.  A Fatal record is written and then the process exits.
Write(h, level) ==
    /\ ~exited
    /\ h \in DOMAIN loggers
    /\ \A i \in DOMAIN loggers[h].cores : Len(loggers[h].written[i]) < MaxWrites
    /\ loggers' = [loggers EXCEPT ![h] = TeeWrite(@, level)]
    /\ exited' = (level = FatalLevel)
    /\ call' = [ op |-> "Write", logger |-> h, level |-> level,
                 delivered |-> Delivered(loggers[h], level),
                 before |-> loggers[h].written ]
    /\ UNCHANGED <<DefaultConfig, allocs, cores, Logger, pc, frame>>

\* Handle.Sync(), as main does before it returns: nothing is buffered, and
\* the error goes to the caller.
Sync(h, syncErr) ==
    /\ ~exited
    /\ h \in DOMAIN loggers
    /\ call' = [op |-> "Sync", logger |-> h, err |-> syncErr]
    /\ UNCHANGED <<DefaultConfig, allocs, cores, Logger, loggers, exited, pc, frame>>

-----------------------------------------------------------------------------
(* New(level): the log directory, the two cores, and a first record.       *)

NewBuilders(level) ==
    << FileBuilder(<< [op |-> "WithRotateSettings", maxSize |-> 10, maxAge |-> 7,
                       compress |-> TRUE],
                      [op |-> "WithLogLevel", level |-> level] >>),
       ConsoleBuilder(<< [op |-> "WithLogLevel", level |-> level],
                         [op |-> "WithColorOutput", enabled |-> TRUE] >>) >>

\* if err := os.MkdirAll(logDir, 0755); err != nil { return nil, error }
MkdirErrorIgnored(mkdirOK) == FALSE

MkdirFailed(mkdirOK) == ~mkdirOK

\* logger.Info("Logger initialized with fileCore and consoleCore!")
FirstRecord(o) ==
    IF o.err = "nil"
    THEN [o.loggers EXCEPT ![o.ret] = TeeWrite(@, InfoLevel)]
    ELSE o.loggers

\* mkdirOK is whether os.MkdirAll("logs") succeeds.
New(level, mkdirOK, syncErr) ==
    /\ ~exited
    /\ Len(loggers) < MaxLoggers
    /\ IF MkdirFailed(mkdirOK)
       THEN /\ call' = [ op |-> "New", builders |-> NewBuilders(level),
                         err |-> "failed to create log directory", ret |-> 0,
                         prev |-> Logger, flushed |-> 0, syncErr |-> FALSE,
                         mkdirOK |-> mkdirOK, before |-> loggers ]
            /\ UNCHANGED <<DefaultConfig, allocs, Logger, loggers>>
       ELSE \E o \in {NewOutcome(NewBuilders(level))} :
                /\ Logger' = o.Logger
                /\ loggers' = FirstRecord(o)
                /\ DefaultConfig' = o.DefaultConfig
                /\ allocs' = o.allocs
                /\ call' = [ op |-> "New", builders |-> NewBuilders(level),
                             err |-> o.err, ret |-> o.ret,
                             prev |-> Logger, flushed |-> o.flushed,
                             syncErr |-> syncErr /\ o.flushed # 0,
                             mkdirOK |-> mkdirOK, before |-> loggers ]
    /\ UNCHANGED <<cores, exited, pc, frame>>

\* What the occupant's Sync may return when new() calls it: there is no call,
\* and no error, while the slot is empty.
SyncResults == IF Logger = 0 THEN {FALSE} ELSE BOOLEAN

\* The life of the slot: loggers are built and installed, one after the other.
NextInstall ==
    \/ \E builders \in BuilderLists, syncErr \in SyncResults : new(builders, syncErr)
    \/ \E level \in {DebugLevel, WarnLevel}, mkdirOK \in BOOLEAN, syncErr \in SyncResults :
           New(level, mkdirOK, syncErr)
    \/ \E h \in DOMAIN loggers, syncErr \in BOOLEAN : Sync(h, syncErr)

SpecInstall == Init /\ [][NextInstall]_vars

\* One logger is built, and records are written through it.
NextWrite ==
    \/ \E builders \in BuilderLists : Logger = 0 /\ new(builders, FALSE)
    \/ \E level \in Levels : Logger # 0 /\ Write(Logger, level)

SpecWrite == Init /\ [][NextWrite]_vars

-----------------------------------------------------------------------------
(* Concurrent callers of new().  Nothing orders their accesses to Logger:  *)
(* each read and each write of the slot is a step of its own, and the      *)
(* steps of the callers interleave.  Go promises nothing more for these    *)
(* unsynchronised accesses; every build can produce these interleavings.   *)

\* Lines 160-195: the cores and the logger are built; nothing is shared yet.
RaceBuild(p, builders) ==
    /\ ~exited
    /\ pc[p] \in {"idle", "done"}
    /\ Len(loggers) < MaxLoggers
    /\ \E acc \in {BuildCores(builders, NoCores)} :
           /\ DefaultConfig' = acc.heap[DefaultAddr]
           /\ allocs' = acc.allocs
           /\ IF Len(builders) = 0 \/ NoValidCores(acc.cores)
              THEN /\ pc' = [pc EXCEPT ![p] = "done"]
                   /\ frame' = [frame EXCEPT ![p] = [logger |-> 0, seen |-> 0, ret |-> 0]]
                   /\ UNCHANGED loggers
              ELSE /\ pc' = [pc EXCEPT ![p] = "L197"]
                   /\ frame' = [frame EXCEPT ![p] =
                                  [logger |-> Len(loggers) + 1, seen |-> 0, ret |-> 0]]
                   /\ loggers' = Append(loggers, NewLogger(acc))
    /\ call' = [op |-> "new", caller |-> p]
    /\ UNCHANGED <<cores, Logger, exited>>

\* Line 197: if Logger != nil
RaceCheck(p) ==
    /\ ~exited
    /\ pc[p] = "L197"
    /\ pc' = [pc EXCEPT ![p] = IF Logger # 0 THEN "L198" ELSE "L201"]
    /\ frame' = [frame EXCEPT ![p].seen = Logger]
    /\ UNCHANGED <<DefaultConfig, allocs, cores, Logger, loggers, exited, call>>

\* Line 198: _ = Logger.Sync(), on the occupant as read now
RaceSync(p) ==
    /\ ~exited
    /\ pc[p] = "L198"
    /\ loggers' = SyncOccupant(loggers, Logger)
    /\ pc' = [pc EXCEPT ![p] = "L201"]
    /\ frame' = [frame EXCEPT ![p].seen = Logger]
    /\ UNCHANGED <<DefaultConfig, allocs, cores, Logger, exited, call>>

\* Line 201: Logger = logger.Sugar()
RaceStore(p) ==
    /\ ~exited
    /\ pc[p] = "L201"
    /\ Logger' = frame[p].logger
    /\ loggers' = Install(loggers, Logger, frame[p].logger)
    /\ pc' = [pc EXCEPT ![p] = "L203"]
    /\ UNCHANGED <<DefaultConfig, allocs, cores, exited, frame, call>>

\* Line 203: return Logger, nil
RaceReturn(p) ==
    /\ ~exited
    /\ pc[p] = "L203"
    /\ frame' = [frame EXCEPT ![p].ret = Logger]
    /\ pc' = [pc EXCEPT ![p] = "done"]
    /\ UNCHANGED <<DefaultConfig, allocs, cores, Logger, loggers, exited, call>>

NextRace ==
    \/ \E p \in Procs, builders \in BuilderLists : RaceBuild(p, builders)
    \/ \E p \in Procs : RaceCheck(p)
    \/ \E p \in Procs : RaceSync(p)
    \/ \E p \in Procs : RaceStore(p)
    \/ \E p \in Procs : RaceReturn(p)
    \/ \E level \in {DebugLevel, ErrorLevel} : Logger # 0 /\ Write(Logger, level)

SpecRace == Init /\ [][NextRace]_vars

-----------------------------------------------------------------------------
(* What the option lists are expected to give, read off the list itself.   *)

Last(S) == CHOOSE i \in S : \A j \in S : j <= i

PathSetters(options) ==
    {i \in DOMAIN options : options[i].op = "WithLogFilePath"}

\* The path of the last WithLogFilePath of the list, or the default path.
ExpectedPath(options) ==
    IF PathSetters(options) = {} THEN "logs/zap.log"
    ELSE options[Last(PathSetters(options))].filePath

\* The options that assign the level and time encoders: WithLogFormat (the
\* whole Encoder) and WithColorOutput(false).
EncoderSetters(options) ==
    {i \in DOMAIN options :
        \/ options[i].op = "WithLogFormat"
        \/ options[i].op = "WithColorOutput" /\ ~options[i].enabled}

ExpectedConsoleEncoders(options) ==
    IF EncoderSetters(options) = {}
    THEN [level |-> "CustomLevelEncoder", time |-> "CustomTimeEncoder"]
    ELSE LET o == options[Last(EncoderSetters(options))]
         IN  IF o.op = "WithLogFormat"
             THEN [level |-> o.format.EncodeLevel, time |-> o.format.EncodeTime]
             ELSE [level |-> "CapitalColorLevelEncoder", time |-> "ISO8601TimeEncoder"]

-----------------------------------------------------------------------------
(* Claims about the builders and the options, checked under SpecBuild.     *)

\* C6, as stated: after any sequence of builder invocations DefaultConfig has
\* its initial value, and no two invocations share a configuration or a
\* writer instance.
C6_NoSharedConfigOrWriter ==
    /\ DefaultConfig = InitialDefaultConfig
    /\ \A i \in DOMAIN cores : cores[i].cfg # DefaultAddr
    /\ \A i, j \in DOMAIN cores :
          i # j => /\ cores[i].cfg # cores[j].cfg
                   /\ ~SameWriter(cores[i].out, cores[j].out)

\* C6, amended: DefaultConfig keeps its initial value, every invocation has a
\* configuration of its own, and two file sinks never share a writer; every
\* console sink writes to the one os.Stdout of the process.
C6_FreshConfigPerInvocation ==
    /\ DefaultConfig = InitialDefaultConfig
    /\ \A i \in DOMAIN cores : cores[i].cfg # DefaultAddr
    /\ \A i, j \in DOMAIN cores :
          i # j => /\ cores[i].cfg # cores[j].cfg
                   /\ (cores[i].out.type = "lumberjack" /\ cores[j].out.type = "lumberjack")
                         => cores[i].out.at # cores[j].out.at
                   /\ (cores[i].out.type = "os.Stdout" /\ cores[j].out.type = "os.Stdout")
                         => cores[i].out = cores[j].out

\* Two file sinks built one after the other, the second from a list of options.
C6_Witness ==
    /\ Len(cores) >= 2
    /\ cores[1].out.type = "lumberjack"
    /\ cores[2].out.type = "lumberjack"
    /\ call.op = "WithFileCore"
    /\ Len(call.options) >= 2

\* C7: the file writer's destination is the path of the last WithLogFilePath
\* of the option list, or "logs/zap.log" when the list has none, whatever the
\* other options.
C7_LastFilePathWins ==
    call.op = "WithFileCore" =>
        call.rotate.Filename = ExpectedPath(call.options)

RotateKnobs == {"MaxSize", "MaxAge", "MaxBackups", "Compress"}

\* C10: each of the four rotation knobs can be given a value other than its
\* default through some option list, and the file writer carries it.
C10_AllRotateKnobsExposed ==
    \A k \in RotateKnobs :
        \E options \in OptionLists :
            LET r == WithFileCore(options, GlobalHeap, allocs + 1)
            IN  Deref(r.heap, r.core.out)[k] # DefaultConfig.Rotate[k]

\* The builders of a list that are not nil and assign a core: the package's own.
YieldsCore(b) == b.kind \in {"WithFileCore", "WithConsoleCore"}

ValidBuilders(builders) == SelectSeq(builders, YieldsCore)

LevelSetters(options) == {i \in DOMAIN options : options[i].op = "WithLogLevel"}

\* The minimum severity an option list asks for: the last WithLogLevel, or
\* the default, info.
ExpectedLevel(options) ==
    IF LevelSetters(options) = {} THEN InfoLevel
    ELSE options[Last(LevelSetters(options))].level

-----------------------------------------------------------------------------
(* Claims about new(), New() and the slot, checked under SpecInstall.      *)

\* C1: when at least one slot of the builder list is a builder that yields a
\* core, new() returns a nil error and a handle, whatever nil slots the list
\* holds, and the logger has exactly one sink per such builder, in order.
C1_OneSinkPerValidBuilder ==
    (call.op = "new" /\ ValidBuilders(call.builders) # <<>>) =>
        /\ call.err = "nil"
        /\ call.ret \in DOMAIN loggers
        /\ Len(loggers[call.ret].cores) = Len(ValidBuilders(call.builders))
        /\ \A i \in DOMAIN loggers[call.ret].cores :
               loggers[call.ret].cores[i].enc.type =
                   IF ValidBuilders(call.builders)[i].kind = "WithFileCore"
                   THEN "json" ELSE "console"

\* A call such as new(nil, consoleCore) or new(fileCore, nil): a nil slot
\* beside a builder that yields a core.
C1_Witness ==
    /\ call.op = "new"
    /\ Len(call.builders) >= 2
    /\ \E i \in DOMAIN call.builders : call.builders[i].kind = "nil"
    /\ ValidBuilders(call.builders) # <<>>
    /\ call.err = "nil"

\* C2: with an empty list, only nil builders, or builders that all leave the
\* core nil, new() returns an error and no handle, the slot keeps its value
\* and no logger is created or flushed.
C2_NoSinkNoHandle ==
    (call.op = "new" /\ ValidBuilders(call.builders) = <<>>) =>
        /\ call.err # "nil"
        /\ call.ret = 0
        /\ Logger = call.prev
        /\ call.flushed = 0
        /\ loggers = call.before

\* new(nil, <a builder that assigns nothing>) while the slot holds a logger.
C2_Witness ==
    /\ call.op = "new"
    /\ Len(call.builders) = 2
    /\ ValidBuilders(call.builders) = <<>>
    /\ call.prev # 0
    /\ call.err # "nil"

\* C4: the slot goes nil, v1, v2, ...: a replaced logger was flushed by new()
\* exactly once, while it was the occupant; the occupant is the newest logger
\* and has not been flushed by new(); a Sync error changes nothing; the handle
\* returned is the one in the slot; the first installation flushes nothing.
C4_FlushedThenReplaced ==
    /\ Logger = Len(loggers)
    /\ \A h \in DOMAIN loggers :
          /\ h < Len(loggers) => (loggers[h].life = "replaced" /\ loggers[h].synced = 1)
          /\ h = Len(loggers) => (loggers[h].life = "occupant" /\ loggers[h].synced = 0)
    /\ (call.op \in {"new", "New"} /\ call.err = "nil") =>
          /\ call.ret = Logger
          /\ call.flushed = call.prev
          /\ call.prev = call.ret - 1
    /\ (call.op \in {"new", "New"} /\ call.syncErr) => call.err = "nil"

\* A second logger installed over the first, whose Sync returned an error.
C4_Witness ==
    /\ call.op = "new"
    /\ call.syncErr
    /\ call.prev = 1
    /\ Logger = 2
    /\ loggers[1].life = "replaced"

\* C9, as stated: an error returned by new() or New() means that no valid
\* sink could be built.
C9_OnlyConfigurationErrors ==
    (call.op \in {"new", "New"} /\ call.err # "nil") =>
        ValidBuilders(call.builders) = <<>>

\* C9, amended: new() returns an error exactly when no builder of the list
\* yields a core; New() returns an error exactly when os.MkdirAll fails, and
\* then creates no handle and leaves the slot alone; otherwise it installs
\* and returns a logger.
C9_ErrorsReturned ==
    /\ call.op = "new" => (call.err # "nil" <=> ValidBuilders(call.builders) = <<>>)
    /\ call.op = "New" =>
          /\ call.err # "nil" <=> ~call.mkdirOK
          /\ call.err # "nil" =>
                (call.ret = 0 /\ Logger = call.prev /\ loggers = call.before)
          /\ call.err = "nil" => (call.ret = Logger /\ call.ret # 0)

\* New(level) when the log directory cannot be created, a logger being installed.
C9_Witness ==
    /\ call.op = "New"
    /\ ~call.mkdirOK
    /\ call.err = "failed to create log directory"
    /\ call.prev # 0

-----------------------------------------------------------------------------
(* The claim about writes, checked under SpecWrite.                        *)

\* C3: a write at severity s is delivered to exactly the sinks whose
\* configured minimum severity is at most s, each sink deciding alone: its
\* output gains the record, and the output of the others is as it was.
C3_DeliveredByThreshold ==
    call.op = "Write" =>
        LET lg == loggers[call.logger]
            admits == {i \in DOMAIN lg.from :
                          ExpectedLevel(lg.from[i].options) <= call.level}
        IN  /\ call.delivered = admits
            /\ \A i \in DOMAIN lg.cores :
                  lg.written[i] = IF i \in admits
                                  THEN Append(call.before[i], call.level)
                                  ELSE call.before[i]

\* A console sink at debug and a file sink at warn, in one logger, fed a
\* warn record after an info record: the file has the warn record alone.
C3_Witness ==
    /\ call.op = "Write"
    /\ call.level = WarnLevel
    /\ Len(loggers[call.logger].cores) = 2
    /\ \E i, j \in DOMAIN loggers[call.logger].cores :
          /\ loggers[call.logger].cores[i].enc.type = "console"
          /\ loggers[call.logger].cores[j].enc.type = "json"
          /\ loggers[call.logger].written[i] = <<InfoLevel, WarnLevel>>
          /\ loggers[call.logger].written[j] = <<WarnLevel>>

-----------------------------------------------------------------------------
(* The claim about concurrent callers, checked under SpecRace.             *)

\* C5: in every interleaving, a logger that is replaced in the slot was
\* flushed by new() while it was the occupant, and each call that succeeds
\* returns the logger it built.
C5_ReplacedOnlyFlushed ==
    /\ \A h \in DOMAIN loggers : loggers[h].life = "replaced" => loggers[h].synced >= 1
    /\ \A p \in Procs :
          (pc[p] = "done" /\ frame[p].logger # 0) => frame[p].ret = frame[p].logger

====
